---- MODULE Spec2Model ----
(***************************************************************************)
(* Field extraction of scripts/extract_fields.py (extract_struct_fields)   *)
(* and scripts/extract_openapi_fields.py (get_fields_from_schema), the     *)
(* locators find_struct_file and get_resource_schema, and the main loops   *)
(* of both scripts.                                                        *)
(*                                                                         *)
(* A Python string is a sequence of atoms.  An atom stands for one         *)
(* character or for one indivisible run of characters ("//", "+optional",  *)
(* "json:", an identifier); the empty string is <<>>.  Whitespace is the   *)
(* atom " ".  The string operations of the code (strip, split, startswith, *)
(* the 'in' substring test, the regular expression search, format          *)
(* strings) are the operators below, computed on these sequences.          *)
(***************************************************************************)
EXTENDS Integers, Sequences, FiniteSets, TLC

VARIABLES
    pc,             \* position of the running function
    exists,         \* os.path.exists(file_path) of extract_struct_fields
    content,        \* struct_pattern.finditer(content): <<[name, body]>>
    struct_name,    \* the target name given to extract_struct_fields
    m,              \* index of the current match of the finditer loop
    lines,          \* struct_body.split('\n') of the current match
    li,             \* index of the current line of the 'for line in lines' loop
    comment_block,  \* comment lines collected since the last field
    is_optional,    \* '+optional' seen in the collected comment lines
    fields,         \* the accumulator both extractors append records to
    schema,         \* the schema given to the root call of get_fields_from_schema
    stack,          \* call stack of get_fields_from_schema, innermost call last
    driver,         \* which script's main is running
    corpus,         \* the files of the working directory: path -> state
    rows,           \* api_groups_kinds, the rows read from the input CSV
    ri,             \* index of the current row of the 'for item in' loop
    located,        \* outcome of the locator call of the last row
    all_fields,     \* all_fields of extract_openapi_fields.main
    output          \* the data rows of the output CSV

vars == <<pc, exists, content, struct_name, m, lines, li, comment_block,
          is_optional, fields, schema, stack,
          driver, corpus, rows, ri, located, all_fields, output>>

structVars == <<exists, content, struct_name, m, lines, li, comment_block, is_optional>>
schemaVars == <<schema, stack>>
driverVars == <<driver, corpus, rows, ri, located, all_fields, output>>

\* no main is running: the extractors are called on their own
NoDriver ==
    /\ driver = "none"
    /\ corpus = <<>>
    /\ rows = <<>>
    /\ ri = 0
    /\ located = <<>>
    /\ all_fields = <<>>
    /\ output = <<>>

-----------------------------------------------------------------------------
(* Bounds of the model *)

\* lines in all the struct bodies of one file together
MaxLines == 3
\* struct blocks (matches of struct_pattern) in one file
MaxBlocks == 2
\* properties of one nested schema level
MaxProps == 2
\* sub-schemas of one allOf list
MaxAllOf == 2

-----------------------------------------------------------------------------
(* Python string operations on atom sequences *)

SP == " "

\* indices of s holding atom a
Positions(s, a) == {i \in 1..Len(s) : s[i] = a}

Min(S) == CHOOSE x \in S : \A y \in S : x <= y
Max(S) == CHOOSE x \in S : \A y \in S : x >= y

\* Python: a in s, for a one-atom string a
Contains(s, a) == Positions(s, a) # {}

\* Python: s.strip()
Strip(s) ==
    LET keep == {i \in 1..Len(s) : s[i] # SP}
    IN  IF keep = {} THEN <<>> ELSE SubSeq(s, Min(keep), Max(keep))

\* Python: s.startswith(a), for a one-atom string a
StartsWith(s, a) == Len(s) >= 1 /\ s[1] = a

\* Python: s.split(): the maximal runs of non-whitespace atoms, in order
RECURSIVE Split(_)
Split(s) ==
    LET t == Strip(s)
        sp == Positions(t, SP)
    IN  IF t = <<>> THEN <<>>
        ELSE IF sp = {} THEN <<t>>
        ELSE <<SubSeq(t, 1, Min(sp) - 1)>> \o Split(SubSeq(t, Min(sp) + 1, Len(t)))

\* Python: s.split(sep)[1], for a one-atom sep that occurs in s
SplitSecond(s, sep) ==
    LET first == Min(Positions(s, sep))
        rest  == SubSeq(s, first + 1, Len(s))
        nxt   == Positions(rest, sep)
    IN  IF nxt = {} THEN rest ELSE SubSeq(rest, 1, Min(nxt) - 1)

\* Python: s.split(sep)[-1], for a one-atom sep
SplitLast(s, sep) ==
    LET ps == Positions(s, sep)
    IN  IF ps = {} THEN s ELSE SubSeq(s, Max(ps) + 1, Len(s))

QUOTE == "\""
JSONKEY == "json:"
\* the atom of the backquote character that delimits a struct tag
BACKTICK == "bq"
COMMENT == "//"
OPTIONAL == "+optional"

\* json_tag_pattern.search(tags): the start positions at which json:"[^"]*" matches
JsonMatchStarts(tags) ==
    {i \in 1..(Len(tags) - 2) :
        /\ tags[i] = JSONKEY
        /\ tags[i + 1] = QUOTE
        /\ \E j \in (i + 2)..Len(tags) : tags[j] = QUOTE}

\* json_match.group(1) of the leftmost match
JsonGroup(tags) ==
    LET i == Min(JsonMatchStarts(tags))
        j == Min({k \in (i + 2)..Len(tags) : tags[k] = QUOTE})
    IN  SubSeq(tags, i + 2, j - 1)

-----------------------------------------------------------------------------
(* Inputs of extract_struct_fields *)

\* the lines a struct body is made of
LineSet ==
    { <<>>,                                                 \* empty line
      <<SP, SP>>,                                           \* whitespace only
      <<SP, COMMENT, SP, "x">>,                             \* comment
      <<SP, COMMENT, SP, OPTIONAL>>,                        \* comment with the marker
      <<SP, "A">>,                                          \* embedded: one token
      <<"A", SP, "A", SP, BACKTICK, JSONKEY, QUOTE, "x", QUOTE, BACKTICK>>,
                                                            \* embedded: token twice
      <<SP, "A", SP, "B">>,                                 \* field, no tag
      <<"A", SP, "B", SP, BACKTICK, JSONKEY, QUOTE, "x", QUOTE, BACKTICK>>,
                                                            \* field, json tag
      <<"A", SP, "B", SP, BACKTICK, "p:", QUOTE, "x", QUOTE, BACKTICK>>,
                                                            \* field, tag without json
      <<"A", SP, "B", SP, BACKTICK, JSONKEY, QUOTE, "x", QUOTE, SP, OPTIONAL, BACKTICK>>,
                                                            \* field, marker inside the tag
      <<"A", SP, "B", SP, COMMENT, SP, OPTIONAL>>,          \* field, marker outside any tag
      <<"B", SP, "A", SP, BACKTICK, JSONKEY, QUOTE, "x">>   \* field, unclosed tag and quote
    }

TargetName == <<"K">>
OtherName == <<"O">>

\* every body of n lines
BodiesOf(n) == [1..n -> LineSet]

\* a block of another name, and a one-line block of the target name
OtherBlock == [name |-> OtherName, body |-> << <<"A", SP, "B">> >>]
ShortBlock == [name |-> TargetName, body |-> << <<"C", SP, "D">> >>]

\* the sequences of at most n one-line blocks
RECURSIVE ShortBlocks(_)
ShortBlocks(n) ==
    IF n = 0 THEN {<<>>}
    ELSE LET shorter == ShortBlocks(n - 1)
         IN  shorter \cup { Append(q, x) : q \in shorter, x \in {OtherBlock, ShortBlock} }

\* the matches of struct_pattern in a file: at most MaxBlocks blocks holding
\* at most MaxLines lines together, one of them with any body; [^}]+ matches
\* at least one character, so every body has at least one line
IsContent(c) ==
    \/ c \in ShortBlocks(MaxBlocks)
    \/ \E pre \in ShortBlocks(MaxBlocks - 1), post \in ShortBlocks(MaxBlocks - 1) :
         /\ Len(pre) + Len(post) + 1 <= MaxBlocks
         /\ \E n \in 1..(MaxLines - Len(pre) - Len(post)) :
              \E bd \in BodiesOf(n) :
                 c = pre \o <<[name |-> TargetName, body |-> bd]>> \o post

-----------------------------------------------------------------------------
(* extract_struct_fields *)

InitStruct ==
    /\ pc = "start"
    /\ exists \in BOOLEAN
    /\ IF exists THEN IsContent(content) ELSE content = <<>>
    /\ struct_name = TargetName
    /\ m = 0
    /\ lines = <<>>
    /\ li = 0
    /\ comment_block = <<>>
    /\ is_optional = FALSE
    /\ fields = <<>>
    /\ schema = <<>>
    /\ stack = <<>>
    /\ NoDriver

\* line = line.strip() of the current line
CurLine == Strip(lines[li])

\* parts = line.split()
Parts(line) == Split(line)

\* a slip: only the one-token shape is taken for an embedded type
IsEmbeddedOneToken(parts) == Len(parts) = 1

\* len(parts) == 1 or (len(parts) > 1 and parts[0] == parts[1])
IsEmbedded(parts) ==
    Len(parts) = 1 \/ (Len(parts) > 1 /\ parts[1] = parts[2])

\* tags: the text between the first two backquotes, "" without a backquote
TagsOf(line) ==
    IF Contains(line, BACKTICK) THEN SplitSecond(line, BACKTICK) ELSE <<>>

\* a slip: the wire name falls back to the field name
JsonTagOrName(line) ==
    LET tags == IF Contains(line, BACKTICK) THEN SplitSecond(line, BACKTICK) ELSE <<>>
    IN  IF Contains(line, BACKTICK) /\ JsonMatchStarts(tags) # {}
        THEN JsonGroup(tags) ELSE Split(line)[1]

\* json_tag: group 1 of the json:"..." match in tags, "" without a match
JsonTagOf(line) ==
    LET tags == TagsOf(line)
    IN  IF Contains(line, BACKTICK) /\ JsonMatchStarts(tags) # {}
        THEN JsonGroup(tags) ELSE <<>>

\* a slip: every field is optional
OptionalAlways(pending, tags) == "true"

\* a slip: the pending comment marker is ignored
OptionalTagsOnly(pending, tags) ==
    IF tags # <<>> /\ Contains(tags, OPTIONAL) THEN "true" ELSE "false"

\* optional: "true" with a pending marker or a marker in tags, else "false"
OptionalOf(pending, tags) ==
    IF pending \/ (tags # <<>> /\ Contains(tags, OPTIONAL)) THEN "true" ELSE "false"

\* the record appended for a field line
FieldRecord(line, pending) ==
    LET parts == Parts(line)
    IN  [Field      |-> parts[1],
         Type       |-> parts[2],
         JSONTag    |-> JsonTagOf(line),
         Optional   |-> OptionalOf(pending, TagsOf(line)),
         StructTags |-> TagsOf(line)]

\* if not os.path.exists(file_path): return fields
MissingFile ==
    /\ pc = "start"
    /\ ~exists
    /\ pc' = "done"
    /\ UNCHANGED <<structVars, driverVars, fields, schemaVars, driverVars>>

\* with open(file_path) as f: content = f.read(); start the finditer loop
OpenFile ==
    /\ pc = "start"
    /\ exists
    /\ pc' = "scan"
    /\ UNCHANGED <<structVars, driverVars, fields, schemaVars, driverVars>>

\* a match whose name is not struct_name: continue
SkipMatch ==
    /\ pc = "scan"
    /\ m < Len(content)
    /\ content[m + 1].name # struct_name
    /\ m' = m + 1
    /\ UNCHANGED <<pc, exists, content, struct_name, lines, li, comment_block,
                   is_optional, fields, schemaVars, driverVars>>

\* a match of struct_name: split its body, reset the comment state
EnterMatch ==
    /\ pc = "scan"
    /\ m < Len(content)
    /\ content[m + 1].name = struct_name
    /\ m' = m + 1
    /\ lines' = content[m + 1].body
    /\ li' = 1
    /\ comment_block' = <<>>
    /\ is_optional' = FALSE
    /\ pc' = "lines"
    /\ UNCHANGED <<exists, content, struct_name, fields, schemaVars, driverVars>>

\* if not line: continue
BlankLine ==
    /\ pc = "lines"
    /\ li <= Len(lines)
    /\ CurLine = <<>>
    /\ li' = li + 1
    /\ UNCHANGED <<pc, exists, content, struct_name, m, lines, comment_block,
                   is_optional, fields, schemaVars, driverVars>>

\* a comment line is collected; '+optional' in it sets is_optional
CommentLine ==
    /\ pc = "lines"
    /\ li <= Len(lines)
    /\ CurLine # <<>>
    /\ StartsWith(CurLine, COMMENT)
    /\ comment_block' = Append(comment_block, CurLine)
    /\ is_optional' = (is_optional \/ Contains(CurLine, OPTIONAL))
    /\ li' = li + 1
    /\ UNCHANGED <<pc, exists, content, struct_name, m, lines, fields, schemaVars, driverVars>>

\* a slip: an embedded type leaves the comment state as it is
EmbeddedLineKeepsComments ==
    /\ pc = "lines"
    /\ li <= Len(lines)
    /\ Strip(lines[li]) # <<>>
    /\ ~StartsWith(Strip(lines[li]), COMMENT)
    /\ Len(Split(Strip(lines[li]))) = 1
       \/ (Len(Split(Strip(lines[li]))) > 1
           /\ Split(Strip(lines[li]))[1] = Split(Strip(lines[li]))[2])
    /\ li' = li + 1
    /\ UNCHANGED <<pc, exists, content, struct_name, m, lines, comment_block,
                   is_optional, fields, schemaVars, driverVars>>

\* an embedded type: no record, the comment state is reset
EmbeddedLine ==
    /\ pc = "lines"
    /\ li <= Len(lines)
    /\ CurLine # <<>>
    /\ ~StartsWith(CurLine, COMMENT)
    /\ IsEmbedded(Parts(CurLine))
    /\ comment_block' = <<>>
    /\ is_optional' = FALSE
    /\ li' = li + 1
    /\ UNCHANGED <<pc, exists, content, struct_name, m, lines, fields, schemaVars, driverVars>>

\* a field line: one record is appended, the comment state is reset
FieldLine ==
    /\ pc = "lines"
    /\ li <= Len(lines)
    /\ CurLine # <<>>
    /\ ~StartsWith(CurLine, COMMENT)
    /\ ~IsEmbedded(Parts(CurLine))
    /\ fields' = Append(fields, FieldRecord(CurLine, is_optional))
    /\ comment_block' = <<>>
    /\ is_optional' = FALSE
    /\ li' = li + 1
    /\ UNCHANGED <<pc, exists, content, struct_name, m, lines, schemaVars, driverVars>>

\* the lines of the match are exhausted: back to the finditer loop
EndBody ==
    /\ pc = "lines"
    /\ li > Len(lines)
    /\ pc' = "scan"
    /\ UNCHANGED <<exists, content, struct_name, m, lines, li, comment_block,
                   is_optional, fields, schemaVars, driverVars>>

\* no match is left: return fields
ReturnFields ==
    /\ pc = "scan"
    /\ m = Len(content)
    /\ pc' = "done"
    /\ UNCHANGED <<structVars, driverVars, fields, schemaVars, driverVars>>

NextStruct ==
    \/ MissingFile
    \/ OpenFile
    \/ SkipMatch
    \/ EnterMatch
    \/ BlankLine
    \/ CommentLine
    \/ EmbeddedLine
    \/ FieldLine
    \/ EndBody
    \/ ReturnFields

SpecStruct == InitStruct /\ [][NextStruct]_vars

-----------------------------------------------------------------------------
(* Inputs of get_fields_from_schema *)

\* A schema is a function from its keys to their values: "properties" is the
\* sequence of [name, data] entries in insertion order, "required" a sequence
\* of names, "allOf" a sequence of schemas, "items" a schema, and "type",
\* "$ref" and "description" are strings.

\* an optional value is the set of no value or of one value
Absent == {}
Maybe(S) == {Absent} \cup {{v} : v \in S}

\* the one-key schema k: v, or the empty schema when the value is absent
Key(k, vs) == IF vs = Absent THEN <<>> ELSE k :> (CHOOSE v \in vs : TRUE)

\* Python: k in d
Has(d, k) == k \in DOMAIN d

SLASH == "/"
DOT == "."
BRACKETS == "[]"
ARRAYOF == "array of "

ApiVersionName == <<"apiVersion">>
KindName == <<"kind">>

\* property names: the empty string, a plain name and the two envelope names
PropNames == {<<>>, <<"a">>, KindName, ApiVersionName}

RefValues ==
    { <<"#", SLASH, "components", SLASH, "schemas", SLASH, "Foo">>,
      <<"Bar">>,
      <<"x", SLASH>> }

RefSchema == "$ref" :> <<"#", SLASH, "components", SLASH, "schemas", SLASH, "Foo">>

\* the 'items' values the type rule reads
ItemShapes ==
    { <<>>,
      [type |-> <<"string">>],
      RefSchema,
      [allOf |-> <<RefSchema>>],
      [allOf |-> <<>>, type |-> <<"object">>],
      [type |-> <<"array">>, items |-> [type |-> <<"string">>]],
      RefSchema @@ [type |-> <<"string">>] }

\* the 'allOf' values the type rule reads
AllOfShapes ==
    { <<>>,
      <<RefSchema>>,
      <<[type |-> <<"string">>]>>,
      <<[type |-> <<"string">>], RefSchema>> }

\* property schemas without nested properties: every combination of the keys
\* the type rule reads
TypeShapes ==
    { Key("$ref", r) @@ Key("allOf", a) @@ Key("type", t) @@ Key("items", i) :
        r \in Maybe(RefValues),
        a \in Maybe(AllOfShapes),
        t \in Maybe({<<"string">>, <<"array">>}),
        i \in Maybe(ItemShapes) }

\* the sequences of at most n distinct property names (the keys of a dict)
RECURSIVE NameSeqs(_)
NameSeqs(n) ==
    IF n = 0 THEN {<<>>}
    ELSE LET shorter == NameSeqs(n - 1)
         IN  shorter \cup
             UNION { { Append(q, x) : x \in { y \in PropNames :
                                                \A i \in 1..Len(q) : q[i] # y } } :
                     q \in shorter }

\* the values of 'required': absent, or a list of names
RequiredValues ==
    Maybe({ << <<"a">> >>, << KindName >>, << <<>> >>, << ApiVersionName, <<"a">> >> })

StringProp == [type |-> <<"string">>]

\* a schema with the one property nm
OneProp(nm, d, r) ==
    [properties |-> <<[name |-> nm, data |-> d]>>] @@ Key("required", r)

\* schemas with one property, a plain string
SingleLevels ==
    { OneProp(nm, StringProp, r) : nm \in PropNames, r \in Maybe({ << KindName >> }) }

\* schemas with up to MaxProps properties, all plain strings
FlatLevels ==
    { [properties |-> [i \in 1..Len(q) |-> [name |-> q[i], data |-> StringProp]]]
        @@ Key("required", r) :
        q \in NameSeqs(MaxProps) \ {<<>>}, r \in RequiredValues }

\* the elements of an 'allOf' list: with properties, and without
AllOfElements == SingleLevels \cup {RefSchema}

RECURSIVE AllOfLists(_)
AllOfLists(n) ==
    IF n = 0 THEN {<<>>}
    ELSE LET shorter == AllOfLists(n - 1)
         IN  shorter \cup { Append(q, x) : q \in shorter, x \in AllOfElements }

\* what a property schema holds a nested level in
Wrapped(lvl) ==
    { lvl,
      [type |-> <<"array">>, items |-> lvl],
      [type |-> <<"object">>, items |-> lvl],
      lvl @@ [allOf |-> <<lvl>>, items |-> lvl],
      [allOf |-> <<lvl>>, type |-> <<"array">>, items |-> lvl] }

\* property schemas the walker descends into, one level deep
NestedShapes ==
    UNION { Wrapped(lvl) : lvl \in FlatLevels }
    \cup { [allOf |-> q] : q \in AllOfLists(MaxAllOf) }

\* property schemas the walker descends into, two levels deep
DeepShapes ==
    UNION { Wrapped(OneProp(<<"b">>, d, Absent)) :
            d \in UNION { Wrapped(lvl) : lvl \in SingleLevels } }

\* root schemas with 'kind' first and a nested level under 'a'
EnvelopeSchemas ==
    { [properties |-> <<[name |-> KindName, data |-> StringProp],
                        [name |-> <<"a">>, data |-> d]>>] :
      d \in UNION { Wrapped(lvl) : lvl \in SingleLevels } }

Schemas ==
    {<<>>, [type |-> <<"object">>]}
    \cup FlatLevels
    \cup EnvelopeSchemas
    \cup { OneProp(<<"a">>, d, Absent) : d \in TypeShapes }
    \cup { OneProp(nm, d, r) : nm \in PropNames, d \in NestedShapes, r \in RequiredValues }
    \cup { OneProp(nm, d, Absent) : nm \in PropNames, d \in DeepShapes }

-----------------------------------------------------------------------------
(* get_fields_from_schema *)

InitSchema ==
    /\ pc = "start"
    /\ schema \in Schemas
    /\ stack = <<>>
    /\ fields = <<>>
    /\ exists = FALSE
    /\ content = <<>>
    /\ struct_name = <<>>
    /\ m = 0
    /\ lines = <<>>
    /\ li = 0
    /\ comment_block = <<>>
    /\ is_optional = FALSE
    /\ NoDriver

\* schema.get('properties', {}), as the sequence of its items
PropertiesOf(s) == IF Has(s, "properties") THEN s["properties"] ELSE <<>>

\* a call of get_fields_from_schema(s, p, fields, api_group, kind)
Frame(s, p) == [schema |-> s, path |-> p, i |-> 1, k |-> 0]

Top == stack[Len(stack)]

\* the property the loop of the innermost call stands at
AtProperty == pc = "walk" /\ Top.k = 0 /\ Top.i <= Len(PropertiesOf(Top.schema))

PropName == PropertiesOf(Top.schema)[Top.i].name
PropData == PropertiesOf(Top.schema)[Top.i].data

\* a slip: the envelope names are skipped at every level
IsSkippedAnywhere(name, path) == name \in {ApiVersionName, KindName}

\* prop_name in ['apiVersion', 'kind'] and path == ""
IsSkipped(name, path) == name \in {ApiVersionName, KindName} /\ path = <<>>

\* f"{path}.{prop_name}" if path else prop_name
FieldPath(path, name) == IF path # <<>> THEN path \o <<DOT>> \o name ELSE name

\* a slip: the 'required' list of the root schema is read at every level
OptionalInRoot(s, name) ==
    IF Has(schema, "required")
       /\ \E j \in 1..Len(schema["required"]) : schema["required"][j] = name
    THEN "false" ELSE "true"

\* "false" if 'required' in schema and prop_name in schema['required']
OptionalIn(s, name) ==
    IF Has(s, "required") /\ \E j \in 1..Len(s["required"]) : s["required"][j] = name
    THEN "false" ELSE "true"

\* ref.split('/')[-1]
RefName(ref) == SplitLast(ref, SLASH)

\* 'allOf' in d and d['allOf'] and '$ref' in d['allOf'][0]
HasAllOfRef(d) == Has(d, "allOf") /\ d["allOf"] # <<>> /\ Has(d["allOf"][1], "$ref")

\* item_type of lines 48-54
ItemType(items) ==
    IF Has(items, "$ref") THEN RefName(items["$ref"])
    ELSE IF HasAllOfRef(items) THEN RefName(items["allOf"][1]["$ref"])
    ELSE IF Has(items, "type") THEN items["type"]
    ELSE <<>>

\* a slip: 'type' is read before '$ref' and 'allOf'
FieldTypeTypeFirst(d) ==
    IF Has(d, "type")
    THEN IF d["type"] = <<"array">> /\ Has(d, "items")
         THEN <<ARRAYOF>> \o ItemType(d["items"])
         ELSE d["type"]
    ELSE IF Has(d, "$ref") THEN RefName(d["$ref"])
    ELSE IF HasAllOfRef(d) THEN RefName(d["allOf"][1]["$ref"])
    ELSE <<>>

\* field_type of lines 28 and 38-56
FieldType(d) ==
    IF Has(d, "$ref") THEN RefName(d["$ref"])
    ELSE IF HasAllOfRef(d) THEN RefName(d["allOf"][1]["$ref"])
    ELSE IF Has(d, "type")
         THEN IF d["type"] = <<"array">> /\ Has(d, "items")
              THEN <<ARRAYOF>> \o ItemType(d["items"])
              ELSE d["type"]
    ELSE <<>>

\* prop_data.get('description', '')
DescriptionOf(d) == IF Has(d, "description") THEN d["description"] ELSE <<>>

api_group == <<"apps">>
kind == <<"Deployment">>

\* the record appended for property name of schema s walked under path
SchemaRecord(s, path, name, d) ==
    [APIGroup    |-> api_group,
     Kind        |-> kind,
     Field       |-> FieldPath(path, name),
     Type        |-> FieldType(d),
     JSONTag     |-> name,
     Optional    |-> OptionalIn(s, name),
     Description |-> DescriptionOf(d)]

\* the innermost call with its loop moved to the next property
Advanced == [stack EXCEPT ![Len(stack)].i = @ + 1, ![Len(stack)].k = 0]

\* fields with the record of the current property appended
Emitted == Append(fields, SchemaRecord(Top.schema, Top.path, PropName, PropData))

\* main: get_fields_from_schema(schema, "", [], api_group, kind)
CallRoot ==
    /\ pc = "start"
    /\ stack' = <<Frame(schema, <<>>)>>
    /\ pc' = "walk"
    /\ UNCHANGED <<structVars, driverVars, fields, schema>>

\* apiVersion and kind under an empty path: continue
SkipEnvelope ==
    /\ AtProperty
    /\ IsSkipped(PropName, Top.path)
    /\ stack' = Advanced
    /\ UNCHANGED <<pc, structVars, driverVars, fields, schema>>

\* a property with 'properties': its record, then the walk of the property
EmitAndDescend ==
    /\ AtProperty
    /\ ~IsSkipped(PropName, Top.path)
    /\ Has(PropData, "properties")
    /\ fields' = Emitted
    /\ stack' = Append(Advanced, Frame(PropData, FieldPath(Top.path, PropName)))
    /\ UNCHANGED <<pc, structVars, driverVars, schema>>

\* a property with 'allOf' and no 'properties': its record, then the loop
\* over its sub-schemas
EmitAndEnterAllOf ==
    /\ AtProperty
    /\ ~IsSkipped(PropName, Top.path)
    /\ ~Has(PropData, "properties")
    /\ Has(PropData, "allOf")
    /\ fields' = Emitted
    /\ stack' = [stack EXCEPT ![Len(stack)].k = 1]
    /\ UNCHANGED <<pc, structVars, driverVars, schema>>

\* a property with neither, whose 'items' has 'properties': its record, then
\* the walk of 'items' under path + '[]'
EmitAndDescendItems ==
    /\ AtProperty
    /\ ~IsSkipped(PropName, Top.path)
    /\ ~Has(PropData, "properties")
    /\ ~Has(PropData, "allOf")
    /\ Has(PropData, "items") /\ Has(PropData["items"], "properties")
    /\ fields' = Emitted
    /\ stack' = Append(Advanced,
                       Frame(PropData["items"],
                             FieldPath(Top.path, PropName) \o <<BRACKETS>>))
    /\ UNCHANGED <<pc, structVars, driverVars, schema>>

\* any other property: its record only
EmitLeaf ==
    /\ AtProperty
    /\ ~IsSkipped(PropName, Top.path)
    /\ ~Has(PropData, "properties")
    /\ ~Has(PropData, "allOf")
    /\ ~(Has(PropData, "items") /\ Has(PropData["items"], "properties"))
    /\ fields' = Emitted
    /\ stack' = Advanced
    /\ UNCHANGED <<pc, structVars, driverVars, schema>>

\* the sub-schema the allOf loop of the innermost call stands at
InAllOf == pc = "walk" /\ Top.k > 0
AllOfList == PropertiesOf(Top.schema)[Top.i].data["allOf"]

\* a sub-schema with 'properties' is walked under the property's own path
AllOfDescend ==
    /\ InAllOf
    /\ Top.k <= Len(AllOfList)
    /\ Has(AllOfList[Top.k], "properties")
    /\ stack' = Append([stack EXCEPT ![Len(stack)].k = @ + 1],
                       Frame(AllOfList[Top.k], FieldPath(Top.path, PropName)))
    /\ UNCHANGED <<pc, structVars, driverVars, fields, schema>>

\* a sub-schema without 'properties' is passed over
AllOfPass ==
    /\ InAllOf
    /\ Top.k <= Len(AllOfList)
    /\ ~Has(AllOfList[Top.k], "properties")
    /\ stack' = [stack EXCEPT ![Len(stack)].k = @ + 1]
    /\ UNCHANGED <<pc, structVars, driverVars, fields, schema>>

\* the allOf loop is over: on to the next property
AllOfEnd ==
    /\ InAllOf
    /\ Top.k > Len(AllOfList)
    /\ stack' = Advanced
    /\ UNCHANGED <<pc, structVars, driverVars, fields, schema>>

\* the properties are exhausted: return fields to the caller
ReturnSchema ==
    /\ pc = "walk"
    /\ Top.k = 0
    /\ Top.i > Len(PropertiesOf(Top.schema))
    /\ stack' = SubSeq(stack, 1, Len(stack) - 1)
    /\ pc' = IF Len(stack) = 1 THEN "done" ELSE "walk"
    /\ UNCHANGED <<structVars, driverVars, fields, schema>>

NextSchema ==
    \/ CallRoot
    \/ SkipEnvelope
    \/ EmitAndDescend
    \/ EmitAndEnterAllOf
    \/ EmitAndDescendItems
    \/ EmitLeaf
    \/ AllOfDescend
    \/ AllOfPass
    \/ AllOfEnd
    \/ ReturnSchema

SpecSchema == InitSchema /\ [][NextSchema]_vars

-----------------------------------------------------------------------------
(* Shapes of body lines, as the claims word them *)

IsBlankLine(l) == Strip(l) = <<>>

IsCommentLine(l) == StartsWith(Strip(l), COMMENT)

\* one whitespace-separated token, or the first two tokens identical
EmbeddedShape(l) ==
    LET t == Split(l)
    IN  Len(t) = 1 \/ (Len(t) >= 2 /\ t[1] = t[2])

\* a line that is not blank, no comment and not embedded
IsFieldLine(l) == ~IsBlankLine(l) /\ ~IsCommentLine(l) /\ ~EmbeddedShape(l)

\* a comment line with the marker precedes line i of ls, with only blank and
\* comment lines in between
PrecedingMarker(ls, i) ==
    \E j \in 1..(i - 1) :
        /\ IsCommentLine(ls[j])
        /\ Contains(ls[j], OPTIONAL)
        /\ \A k \in (j + 1)..(i - 1) : IsBlankLine(ls[k]) \/ IsCommentLine(ls[k])

\* t holds a json:"..." pattern
HasJsonPattern(t) ==
    \E i \in 1..Len(t) : \E j \in 1..Len(t) :
        j >= i + 2 /\ t[i] = JSONKEY /\ t[i + 1] = QUOTE /\ t[j] = QUOTE

\* the line walked last was a field line; its record is the last of fields
JustEmitted == pc = "lines" /\ li > 1 /\ IsFieldLine(lines[li - 1])

LastField == fields[Len(fields)]

\* the field lines of a body
FieldLineCount(body) == Cardinality({i \in 1..Len(body) : IsFieldLine(body[i])})

\* the field lines of the bodies of all matches named nm in c
RECURSIVE FieldLinesOfMatches(_, _)
FieldLinesOfMatches(c, nm) ==
    IF c = <<>> THEN 0
    ELSE (IF c[1].name = nm THEN FieldLineCount(c[1].body) ELSE 0)
         + FieldLinesOfMatches(Tail(c), nm)

-----------------------------------------------------------------------------
(* Claims on extract_struct_fields *)

C2_CommentMarkerMakesOptional ==
    (JustEmitted /\ PrecedingMarker(lines, li - 1))
    => LastField.Optional = "true"

C2_Witness ==
    /\ JustEmitted
    /\ PrecedingMarker(lines, li - 1)
    /\ ~Contains(LastField.StructTags, OPTIONAL)
    /\ LastField.Optional = "true"

C4_EmbeddedLineAppendsNothing ==
    [][(pc = "lines" /\ li <= Len(lines) /\ EmbeddedShape(lines[li]))
        => fields' = fields]_vars

C4_Witness ==
    /\ pc = "lines"
    /\ li = 3
    /\ IsFieldLine(lines[1])
    /\ EmbeddedShape(lines[2])
    /\ Len(Split(lines[2])) >= 2
    /\ Len(fields) = 1

-----------------------------------------------------------------------------
(* Claims on get_fields_from_schema *)

\* the step appends one record
Emits == Len(fields') = Len(fields) + 1

NewField == fields'[Len(fields')]

\* name is listed in the 'required' of schema level s
Requires(s, name) ==
    Has(s, "required") /\ name \in {s["required"][j] : j \in 1..Len(s["required"])}

\* C6: a record's Optional is "false" exactly when the property's name is in
\* the 'required' list of the schema level that directly holds the property.
C6_RequiredOfOwnLevel ==
    [][(AtProperty /\ Emits)
        => (NewField.Optional = "false" <=> Requires(Top.schema, PropName))
           /\ NewField.Optional \in {"true", "false"}]_vars

\* a nested property named in the root's 'required' and not in its own level's
C6_Witness ==
    /\ pc = "done"
    /\ Requires(schema, <<"a">>)
    /\ Len(fields) = 2
    /\ fields[1].Field = <<"a">>
    /\ fields[1].Optional = "false"
    /\ fields[2].Field = <<"a", DOT, "a">>
    /\ fields[2].Optional = "true"

\* the part of a reference after its last '/'
LastSegment(ref) ==
    CHOOSE t \in {SubSeq(ref, j, Len(ref)) : j \in 1..(Len(ref) + 1)} :
        /\ ~Contains(t, SLASH)
        /\ Len(t) < Len(ref) => ref[Len(ref) - Len(t)] = SLASH

\* the type by reference, by the first allOf reference or by 'type'
PlainType(d) ==
    CASE Has(d, "$ref") -> LastSegment(d["$ref"])
      [] ~Has(d, "$ref") /\ Has(d, "allOf") /\ Len(d["allOf"]) > 0
            /\ Has(d["allOf"][1], "$ref") -> LastSegment(d["allOf"][1]["$ref"])
      [] OTHER -> IF Has(d, "type") THEN d["type"] ELSE <<>>

\* the type a record is claimed to hold
ClaimedType(d) ==
    IF PlainType(d) = <<"array">> /\ ~Has(d, "$ref") /\ Has(d, "type") /\ Has(d, "items")
       /\ ~(Has(d, "allOf") /\ Len(d["allOf"]) > 0 /\ Has(d["allOf"][1], "$ref"))
    THEN <<ARRAYOF>> \o PlainType(d["items"])
    ELSE PlainType(d)

\* C7: Type is the last segment of $ref; else that of allOf[0].$ref; else
\* "array of <itemType>" for type 'array' with 'items', the item type by the
\* same reference, allOf reference, plain type rule; else 'type'; else "".
C7_TypePrecedence ==
    [][(AtProperty /\ Emits) => NewField.Type = ClaimedType(PropData)]_vars

\* the array of references of the specification's example
C7_Witness ==
    /\ pc = "done"
    /\ Has(schema, "properties")
    /\ Len(fields) = 1
    /\ LET d == schema["properties"][1].data
       IN  /\ ~Has(d, "$ref") /\ ~Has(d, "allOf")
           /\ Has(d, "type") /\ d["type"] = <<"array">>
           /\ Has(d, "items") /\ Has(d["items"], "$ref")
    /\ fields[1].Type = <<ARRAYOF, "Foo">>

\* C8: 'apiVersion' and 'kind' yield no record in a call whose path prefix is
\* empty and yield their record in every call whose path prefix is not.
C8_EnvelopeSkippedOnlyUnderEmptyPrefix ==
    [][(AtProperty /\ PropName \in {ApiVersionName, KindName})
        => IF Top.path = <<>>
           THEN fields' = fields
           ELSE /\ Emits
                /\ NewField.Field = Top.path \o <<DOT>> \o PropName
                /\ NewField.JSONTag = PropName
                /\ SubSeq(fields', 1, Len(fields)) = fields]_vars

\* 'kind' at the root leaves no record, 'kind' nested under 'a' does
C8_Witness ==
    /\ pc = "done"
    /\ Has(schema, "properties")
    /\ Len(schema["properties"]) = 2
    /\ schema["properties"][1].name = KindName
    /\ Len(fields) = 2
    /\ fields[1].Field = <<"a">>
    /\ fields[2].Field = <<"a", DOT, "kind">>
    /\ fields[2].JSONTag = KindName

\* the root schema has one property, which has 'allOf' and no 'properties'
RootAllOfProperty ==
    /\ Has(schema, "properties")
    /\ Len(schema["properties"]) = 1
    /\ Has(schema["properties"][1].data, "allOf")
    /\ ~Has(schema["properties"][1].data, "properties")

\* the names of the properties of the allOf elements of d that have any
AllOfNames(d) ==
    UNION { {e["properties"][j].name : j \in 1..Len(e["properties"])} :
            e \in {d["allOf"][x] : x \in {y \in 1..Len(d["allOf"]) :
                                            Has(d["allOf"][y], "properties")}} }

\* path p begins with path q
HasPrefix(p, q) == Len(p) >= Len(q) /\ SubSeq(p, 1, Len(q)) = q

\* the records after P's are those of the properties of P's allOf elements,
\* each under path(P) + '.' + n
AllOfRecordsUnder(d) ==
    /\ \A n \in AllOfNames(d) :
         \E i \in 2..Len(fields) : fields[i].Field = fields[1].Field \o <<DOT>> \o n
    /\ \A i \in 2..Len(fields) :
         \E n \in AllOfNames(d) :
            HasPrefix(fields[i].Field, fields[1].Field \o <<DOT>> \o n)

\* C9 as stated: once a property P with 'allOf' and no 'properties' has its
\* record, every property n of every allOf element with 'properties' has a
\* record with path = path(P) + '.' + n, and the other elements add no record.
C9_AllOfWalkedUnderOwnPath ==
    (pc = "done" /\ RootAllOfProperty /\ fields # <<>>)
    => AllOfRecordsUnder(schema["properties"][1].data)

\* C9 where the path of P is not empty
C9_AllOfWalkedUnderNonEmptyPath ==
    (pc = "done" /\ RootAllOfProperty /\ fields # <<>> /\ fields[1].Field # <<>>)
    => AllOfRecordsUnder(schema["properties"][1].data)

C9_NonEmptyPathWitness ==
    /\ pc = "done" /\ RootAllOfProperty
    /\ Len(fields) = 3
    /\ fields[1].Field = <<"a">>
    /\ Len(schema["properties"][1].data["allOf"]) = 2
    /\ fields[2].Field = <<"a", DOT, "kind">>
    /\ fields[3].Field = <<"a", DOT, "a">>

\* C10 as stated: no record of either extractor has an empty path.
C10_PathNeverEmpty ==
    \A i \in 1..Len(fields) : fields[i].Field # <<>>

-----------------------------------------------------------------------------
(* Claims on the comment state and the matched blocks of extract_struct_fields *)

\* the comment lines, stripped, of the run of blank and comment lines that
\* ends before line i of ls
RECURSIVE PendingComments(_, _)
PendingComments(ls, i) ==
    IF i <= 1 THEN <<>>
    ELSE IF IsBlankLine(ls[i - 1]) THEN PendingComments(ls, i - 1)
    ELSE IF IsCommentLine(ls[i - 1])
         THEN Append(PendingComments(ls, i - 1), Strip(ls[i - 1]))
    ELSE <<>>

\* C13: the flag and the comment accumulator hold only what the comment lines
\* since the last field or embedded line gave: they are cleared by every
\* field line and every embedded line, so a marker does not reach past the
\* first line that is no comment and not blank.
C13_MarkerReachesOneLineOnly ==
    pc = "lines" =>
        /\ is_optional = PrecedingMarker(lines, li)
        /\ comment_block = PendingComments(lines, li)
        /\ (li > 1 /\ ~IsBlankLine(lines[li - 1]) /\ ~IsCommentLine(lines[li - 1]))
            => (~is_optional /\ comment_block = <<>>)

\* a marker comment, an embedded line, then a field with no marker of its own
C13_Witness ==
    /\ pc = "lines"
    /\ li = 4
    /\ IsCommentLine(lines[1]) /\ Contains(lines[1], OPTIONAL)
    /\ EmbeddedShape(lines[2])
    /\ IsFieldLine(lines[3])
    /\ Len(fields) = 1
    /\ fields[1].Optional = "false"
    /\ ~is_optional
    /\ comment_block = <<>>

\* the records of the field lines 1..n of a body, each with the marker of the
\* comment run before it
RECURSIVE RecordsOfBody(_, _)
RecordsOfBody(body, n) ==
    IF n = 0 THEN <<>>
    ELSE IF IsFieldLine(body[n])
         THEN Append(RecordsOfBody(body, n - 1),
                     FieldRecord(Strip(body[n]), PrecedingMarker(body, n)))
    ELSE RecordsOfBody(body, n - 1)

\* the matches of c named nm
MatchesNamed(c, nm) == SelectSeq(c, LAMBDA b : b.name = nm)

\* the records of all the matches of c, in order
RECURSIVE RecordsOfMatches(_)
RecordsOfMatches(c) ==
    IF c = <<>> THEN <<>>
    ELSE RecordsOfBody(c[1].body, Len(c[1].body)) \o RecordsOfMatches(Tail(c))

\* C14 as stated: with more than one block of the target name, the result is
\* the extraction of the first such block alone.
C14_FirstMatchWins ==
    (pc = "done" /\ Len(MatchesNamed(content, struct_name)) > 1)
    => LET first == MatchesNamed(content, struct_name)[1]
       IN  fields = RecordsOfBody(first.body, Len(first.body))

\* what the loop does: the records of every block of the target name, in
\* the order of the blocks
C14_EveryMatchContributes ==
    pc = "done" => fields = RecordsOfMatches(MatchesNamed(content, struct_name))

C14_TwoMatchesWitness ==
    /\ pc = "done"
    /\ Len(MatchesNamed(content, struct_name)) = 2
    /\ Len(fields) = 2
    /\ fields[1].Field # fields[2].Field

-----------------------------------------------------------------------------
(* Claims on the descent of get_fields_from_schema *)

\* the call begun by the step: the innermost frame of the longer stack
NewFrame == stack'[Len(stack')]

IsArray(d) == Has(d, "type") /\ d["type"] = <<"array">>

\* C15 as stated: after a property's record, the walker descends into the
\* property's 'properties' under path; else loops over its allOf; else, only
\* if the property is an array whose 'items' has 'properties', descends into
\* 'items' under path + '[]'; a property that is no array gets no '[]' call.
C15_ItemsOnlyOfArrays ==
    [][(AtProperty /\ Emits)
        => LET own == FieldPath(Top.path, PropName)
           IN  IF Has(PropData, "properties")
               THEN /\ Len(stack') = Len(stack) + 1
                    /\ NewFrame.schema = PropData /\ NewFrame.path = own
               ELSE IF Has(PropData, "allOf")
               THEN /\ Len(stack') = Len(stack)
                    /\ stack'[Len(stack)].k = 1
               ELSE IF IsArray(PropData) /\ Has(PropData, "items")
                       /\ Has(PropData["items"], "properties")
               THEN /\ Len(stack') = Len(stack) + 1
                    /\ NewFrame.schema = PropData["items"]
                    /\ NewFrame.path = own \o <<BRACKETS>>
               ELSE Len(stack') = Len(stack)]_vars

\* the branches as the code takes them: the third one whenever 'items' has
\* 'properties', whatever 'type' is
C15_ItemsOfAnyType ==
    [][(AtProperty /\ Emits)
        => LET own == FieldPath(Top.path, PropName)
           IN  IF Has(PropData, "properties")
               THEN /\ Len(stack') = Len(stack) + 1
                    /\ NewFrame.schema = PropData /\ NewFrame.path = own
               ELSE IF Has(PropData, "allOf")
               THEN /\ Len(stack') = Len(stack)
                    /\ stack'[Len(stack)].k = 1
               ELSE IF Has(PropData, "items") /\ Has(PropData["items"], "properties")
               THEN /\ Len(stack') = Len(stack) + 1
                    /\ NewFrame.schema = PropData["items"]
                    /\ NewFrame.path = own \o <<BRACKETS>>
               ELSE Len(stack') = Len(stack)]_vars

\* a property of type 'object' with a '[]' descendant
C15_NonArrayWitness ==
    /\ pc = "done"
    /\ Has(schema, "properties")
    /\ Len(schema["properties"]) = 1
    /\ schema["properties"][1].name = <<"a">>
    /\ ~IsArray(schema["properties"][1].data)
    /\ Len(fields) = 2
    /\ fields[2].Field = <<"a", BRACKETS, DOT, "kind">>

-----------------------------------------------------------------------------
(* The working directory of the two scripts *)

\* rows of one input CSV
MaxRows == 3

\* Python: s.split(sep)[0], for a one-atom sep
SplitFirst(s, sep) ==
    LET ps == Positions(s, sep)
    IN  IF ps = {} THEN s ELSE SubSeq(s, 1, Min(ps) - 1)

\* Python: s.replace(a, b), for one-atom a and b
Replace(s, a, b) == [i \in 1..Len(s) |-> IF s[i] = a THEN b ELSE s[i]]

\* Python: os.path.join(a, b)
Join(a, b) == a \o <<SLASH>> \o b

\* p lies below directory d
Below(d, p) == Len(p) > Len(d) + 1 /\ SubSeq(p, 1, Len(d) + 1) = d \o <<SLASH>>

\* api_group values of the rows: the core group '', 'apps' and 'apps.k8s.io'
CoreGroup == <<>>
AppsGroup == <<"apps">>
DottedGroup == <<"apps", DOT, "k8s", DOT, "io">>
Groups == {CoreGroup, AppsGroup, DottedGroup}

\* api_dirs
PKG == <<"pkg/apis">>
STAGING == <<"staging/src/k8s.io/api">>
api_dirs == <<PKG, STAGING>>

TYPES_GO == <<"types.go">>
PkgCore == Join(Join(PKG, <<"core">>), TYPES_GO)
StagingCore == Join(Join(Join(STAGING, <<"core">>), <<"v1">>), TYPES_GO)
PkgApps == Join(Join(PKG, <<"apps">>), TYPES_GO)
StagingApps == Join(Join(Join(STAGING, <<"apps">>), <<"v1">>), TYPES_GO)
PkgGenerated == Join(Join(PKG, <<"apps">>), <<"zz_", "generated", ".deepcopy.go">>)
GoPaths == {PkgCore, StagingCore, PkgApps, StagingApps, PkgGenerated}

\* states of a path: no such file, a directory, a file that is not UTF-8,
\* a Go file with the struct blocks of the given names
NoFile == [st |-> "absent", names |-> {}]
Directory == [st |-> "dir", names |-> {}]
Undecodable == [st |-> "undecodable", names |-> {}]
GoFile(ns) == [st |-> "text", names |-> ns]

GoStates(p) ==
    IF p = PkgGenerated THEN {NoFile, GoFile({TargetName})}
    ELSE {NoFile, Undecodable, GoFile({TargetName}), GoFile({OtherName})}

\* the source trees: a root directory is there or not, and only an existing
\* root has files
IsGoCorpus(c) ==
    /\ DOMAIN c = GoPaths \cup {PKG, STAGING}
    /\ \A r \in {PKG, STAGING} :
        /\ c[r] \in {NoFile, Directory}
        /\ \A p \in GoPaths : Below(r, p) =>
               c[p] \in (IF c[r] = Directory THEN GoStates(p) ELSE {NoFile})

GoCorpora ==
    { c \in [GoPaths \cup {PKG, STAGING} -> { NoFile, Directory, Undecodable,
                                              GoFile({TargetName}), GoFile({OtherName}) }] :
          IsGoCorpus(c) }

Files == {p \in DOMAIN corpus : corpus[p].st \in {"undecodable", "text"}}

\* os.path.isdir(d)
IsDir(d) == (d \in DOMAIN corpus /\ corpus[d].st = "dir") \/ \E p \in Files : Below(d, p)

\* os.path.exists(p)
PathExists(p) == p \in Files \/ IsDir(p)

\* os.listdir(d) of an existing directory: the names of its entries
ListDir(d) ==
    { SplitFirst(SubSeq(p, Len(d) + 2, Len(p)), SLASH) : p \in {q \in Files : Below(d, q)} }

\* glob.glob(f'{api_dir}/**/*.go', recursive=True)
GlobGo(api_dir) == {p \in Files : Below(api_dir, p)}

\* 'test' in file_path or 'generated' in file_path
IsSkippedPath(p) == Contains(p, "test") \/ Contains(p, "generated")

\* some match of struct_pattern.finditer(content) has struct_name == kind
DefinesStruct(p, knd) == knd \in corpus[p].names

-----------------------------------------------------------------------------
(* find_struct_file *)

\* how a call ends: a returned value (None is the empty sequence) or the
\* exception that leaves it
None == <<>>
Returned(v) == [exc |-> "", value |-> v]
Raised(e) == [exc |-> e, value |-> None]

\* a set of names in the order os.listdir gives them
RECURSIVE InOrder(_)
InOrder(S) ==
    IF S = {} THEN <<>>
    ELSE LET x == CHOOSE y \in S : TRUE IN <<x>> \o InOrder(S \ {x})

\* search_paths of the core group
CoreSearchPaths == <<PkgCore, StagingCore>>

\* api_group_parts[0]
GroupDir(group) == SplitFirst(group, DOT)

\* search_paths.append of lines 36-39
PkgSearchPaths(group) ==
    LET path == Join(Join(PKG, GroupDir(group)), TYPES_GO)
    IN  IF GroupDir(group) \in ListDir(PKG) /\ PathExists(path) THEN <<path>> ELSE <<>>

\* search_paths.append of lines 42-48, one per version directory
RECURSIVE VersionPaths(_, _)
VersionPaths(group, versions) ==
    IF versions = <<>> THEN <<>>
    ELSE LET dir  == Join(Join(STAGING, GroupDir(group)), Head(versions))
             path == Join(dir, TYPES_GO)
         IN  (IF IsDir(dir) /\ PathExists(path) THEN <<path>> ELSE <<>>)
                 \o VersionPaths(group, Tail(versions))

StagingSearchPaths(group) ==
    IF GroupDir(group) \in ListDir(STAGING)
    THEN VersionPaths(group, InOrder(ListDir(Join(STAGING, GroupDir(group)))))
    ELSE <<>>

\* the loop of lines 51-58 from search_paths[i] on: the outcome that ends the
\* call, or Returned(None) when the loop runs out
RECURSIVE SearchLoop(_, _, _)
SearchLoop(search_paths, i, knd) ==
    IF i > Len(search_paths) THEN Returned(None)
    ELSE LET path == search_paths[i]
         IN  IF ~PathExists(path) THEN SearchLoop(search_paths, i + 1, knd)
             ELSE IF corpus[path].st = "undecodable" THEN Raised("UnicodeDecodeError")
             ELSE IF DefinesStruct(path, knd) THEN Returned(path)
             ELSE SearchLoop(search_paths, i + 1, knd)

\* files the loop of lines 62-74 returns when it meets them
BroadHits(api_dir, knd) ==
    { p \in GlobGo(api_dir) :
          ~IsSkippedPath(p) /\ corpus[p].st = "text" /\ DefinesStruct(p, knd) }

\* lines 61-76: the first hit in glob order of the first api_dir that has one
RECURSIVE BroadSearch(_, _)
BroadSearch(i, knd) ==
    IF i > Len(api_dirs) THEN {Returned(None)}
    ELSE IF BroadHits(api_dirs[i], knd) # {}
    THEN {Returned(p) : p \in BroadHits(api_dirs[i], knd)}
    ELSE BroadSearch(i + 1, knd)

\* lines 51-76 for the given search_paths
SearchAll(search_paths, knd) ==
    IF SearchLoop(search_paths, 1, knd) # Returned(None)
    THEN {SearchLoop(search_paths, 1, knd)}
    ELSE BroadSearch(1, knd)

\* the outcomes of find_struct_file(api_group, kind)
find_struct_file(group, knd) ==
    IF group = <<>> THEN SearchAll(CoreSearchPaths, knd)
    ELSE IF ~IsDir(PKG) THEN {Raised("FileNotFoundError")}
    ELSE IF ~IsDir(STAGING) THEN {Raised("FileNotFoundError")}
    ELSE SearchAll(PkgSearchPaths(group) \o StagingSearchPaths(group), knd)

-----------------------------------------------------------------------------
(* get_resource_schema *)

openapi_dir == <<"api/openapi-spec/v3">>
V1 == "v1"
V2 == "v2"
STAR == "*"
OPENAPI_JSON == "_openapi.json"

\* api_group.replace('.', '_')
GroupPath(group) == Replace(group, DOT, "_")

\* schema_id of lines 86 and 91
SchemaId(group, version, knd) ==
    IF group = <<>> THEN <<"io.k8s.api.core.", version, DOT>> \o knd
    ELSE <<"io.k8s.api.">> \o GroupPath(group) \o <<DOT, version, DOT>> \o knd

\* filename of lines 87 and 92
FileName(group, version) ==
    IF group = <<>> THEN <<"api__", version, OPENAPI_JSON>>
    ELSE <<"apis__">> \o GroupPath(group) \o <<"__", version, OPENAPI_JSON>>

\* the pattern of line 98
OtherVersions(group) == <<"apis__">> \o GroupPath(group) \o <<"__", STAR, OPENAPI_JSON>>

JsonCore == Join(openapi_dir, FileName(CoreGroup, V1))
JsonApps == Join(openapi_dir, FileName(AppsGroup, V1))
JsonAppsV2 == Join(openapi_dir, FileName(AppsGroup, V2))
JsonDotted == Join(openapi_dir, FileName(DottedGroup, V1))
JsonPaths == {JsonCore, JsonApps, JsonAppsV2, JsonDotted}

\* states of an OpenAPI file: no such file, text that is no JSON, a JSON
\* document whose components.schemas holds one entry: id -> fragment.  The
\* fragment is an object schema, the empty object {}, or a value whose
\* 'properties' is no object ("malformed", e.g. {"properties": ["x"]})
BadJson == [st |-> "badjson", id |-> <<>>, fragment |-> ""]
NoJson == [st |-> "absent", id |-> <<>>, fragment |-> ""]
JsonFile(id, fragment) == [st |-> "json", id |-> id, fragment |-> fragment]

JsonStates(p) ==
    IF p = JsonCore
        THEN {NoJson, BadJson} \cup
             {JsonFile(SchemaId(CoreGroup, V1, TargetName), f) : f \in {"object", "malformed"}}
    ELSE IF p = JsonApps
        THEN {NoJson, BadJson, JsonFile(SchemaId(AppsGroup, V1, OtherName), "object")} \cup
             {JsonFile(SchemaId(AppsGroup, V1, TargetName), f) : f \in {"object", "empty", "malformed"}}
    ELSE IF p = JsonAppsV2
        THEN {NoJson} \cup
             {JsonFile(SchemaId(AppsGroup, v, TargetName), "object") : v \in {V1, V2}}
    ELSE {NoJson} \cup
         {JsonFile(SchemaId(DottedGroup, V1, TargetName), f) : f \in {"object", "malformed"}}

JsonCorpora == {c \in [JsonPaths -> UNION {JsonStates(p) : p \in JsonPaths}] :
                    \A p \in JsonPaths : c[p] \in JsonStates(p)}

\* fnmatch of a file name against a pattern with one '*'
Matches(pattern, name) ==
    LET k == Min(Positions(pattern, STAR))
        n == Len(pattern) - k
    IN  /\ Len(name) >= Len(pattern) - 1
        /\ SubSeq(name, 1, k - 1) = SubSeq(pattern, 1, k - 1)
        /\ SubSeq(name, Len(name) - n + 1, Len(name)) = SubSeq(pattern, k + 1, Len(pattern))

\* glob.glob(os.path.join(openapi_dir, pattern))
Glob(pattern) ==
    { p \in {q \in DOMAIN corpus : corpus[q].st # "absent"} :
          LET name == SubSeq(p, Len(openapi_dir) + 2, Len(p))
          IN  IF Contains(pattern, STAR) THEN Matches(pattern, name) ELSE name = pattern }

\* matching_files of lines 95-98
MatchingFiles(group, version) ==
    IF Glob(FileName(group, version)) # {} THEN Glob(FileName(group, version))
    ELSE Glob(OtherVersions(group))

\* the file's schema is returned (lines 107-114): JSON that decodes, holds
\* schema_id, and whose fragment is truthy; anything else is caught or passed
ReturnsSchema(p, id) ==
    /\ corpus[p].st = "json"
    /\ corpus[p].id = id
    /\ corpus[p].fragment # "empty"

\* the outcomes of get_resource_schema(api_group, kind, version): the fragment
\* of the first matching file in glob order that returns one, else None
get_resource_schema(group, knd, version) ==
    LET hits == {p \in MatchingFiles(group, version) :
                     ReturnsSchema(p, SchemaId(group, version, knd))}
    IN  IF hits = {} THEN {Returned(None)}
        ELSE {Returned(<<corpus[p].fragment>>) : p \in hits}

\* the call of get_fields_from_schema on a located fragment: line 19 takes
\* schema.get('properties', {}) and line 20 calls .items() on it
FieldsOfFragment(value) ==
    IF value = <<"malformed">> THEN Raised("AttributeError") ELSE Returned(value)

-----------------------------------------------------------------------------
(* main of extract_fields.py and of extract_openapi_fields.py *)

\* api_groups_kinds: the rows of the input CSV
InputRows == {[APIGroup |-> g, Kind |-> TargetName] : g \in Groups}
RowLists == UNION {[1..n -> InputRows] : n \in 1..MaxRows}

InitDriver ==
    /\ pc = "start"
    /\ driver \in {"struct", "openapi"}
    /\ corpus \in (IF driver = "struct" THEN GoCorpora ELSE JsonCorpora)
    /\ rows \in RowLists
    /\ ri = 0
    /\ located = <<>>
    /\ all_fields = <<>>
    /\ output = <<>>
    /\ fields = <<>>
    /\ exists = FALSE
    /\ content = <<>>
    /\ struct_name = <<>>
    /\ m = 0
    /\ lines = <<>>
    /\ li = 0
    /\ comment_block = <<>>
    /\ is_optional = FALSE
    /\ schema = <<>>
    /\ stack = <<>>

\* item of the running iteration
Item == rows[ri]
InLoop(d) == pc = "rows" /\ driver = d /\ ri <= Len(rows)

\* the locator call of the iteration and how it ended
Call(o) == <<[APIGroup |-> Item.APIGroup, Kind |-> Item.Kind, exc |-> o.exc, value |-> o.value]>>

\* the records the extractor returns for the located value; what they hold is
\* the subject of SpecStruct and SpecSchema, here they carry their origin
RecordsOf(value) ==
    <<[row |-> ri, APIGroup |-> Item.APIGroup, Kind |-> Item.Kind, From |-> value]>>

\* both mains up to their loop: the rows are read (and, in extract_fields.py,
\* the output is opened and gets its header)
StartMain ==
    /\ pc = "start"
    /\ driver \in {"struct", "openapi"}
    /\ pc' = "rows"
    /\ ri' = 1
    /\ UNCHANGED <<structVars, schemaVars, fields, driver, corpus, rows, located,
                   all_fields, output>>

\* extract_fields.main, one iteration: find_struct_file raises and nothing
\* catches it
StructRowRaises ==
    /\ InLoop("struct")
    /\ \E o \in find_struct_file(Item.APIGroup, Item.Kind) :
        /\ o.exc # ""
        /\ located' = Call(o)
    /\ pc' = "crashed"
    /\ UNCHANGED <<structVars, schemaVars, fields, driver, corpus, rows, ri,
                   all_fields, output>>

\* one iteration: the struct file is found, its fields are written
StructRowWritten ==
    /\ InLoop("struct")
    /\ \E o \in find_struct_file(Item.APIGroup, Item.Kind) :
        /\ o.exc = "" /\ o.value # None
        /\ located' = Call(o)
        /\ output' = output \o RecordsOf(o.value)
    /\ ri' = ri + 1
    /\ UNCHANGED <<pc, structVars, schemaVars, fields, driver, corpus, rows, all_fields>>

\* one iteration: find_struct_file returns None
StructRowNotFound ==
    /\ InLoop("struct")
    /\ \E o \in find_struct_file(Item.APIGroup, Item.Kind) :
        /\ o.exc = "" /\ o.value = None
        /\ located' = Call(o)
    /\ ri' = ri + 1
    /\ UNCHANGED <<pc, structVars, schemaVars, fields, driver, corpus, rows,
                   all_fields, output>>

\* the loop of extract_fields.main is over, the output is closed
StructEnd ==
    /\ pc = "rows" /\ driver = "struct" /\ ri > Len(rows)
    /\ pc' = "done"
    /\ UNCHANGED <<structVars, schemaVars, fields, driverVars>>

\* extract_openapi_fields.main, one iteration: get_resource_schema returns
\* None (or a falsy fragment)
OpenapiRowNotFound ==
    /\ InLoop("openapi")
    /\ \E o \in get_resource_schema(Item.APIGroup, Item.Kind, V1) :
        /\ o.value = None
        /\ located' = Call(o)
    /\ ri' = ri + 1
    /\ UNCHANGED <<pc, structVars, schemaVars, fields, driver, corpus, rows,
                   all_fields, output>>

\* one iteration: the fragment is found and its fields extend all_fields
OpenapiRowExtended ==
    /\ InLoop("openapi")
    /\ \E o \in get_resource_schema(Item.APIGroup, Item.Kind, V1) :
        /\ o.value # None
        /\ FieldsOfFragment(o.value).exc = ""
        /\ located' = Call(o)
        /\ all_fields' = all_fields \o RecordsOf(FieldsOfFragment(o.value).value)
    /\ ri' = ri + 1
    /\ UNCHANGED <<pc, structVars, schemaVars, fields, driver, corpus, rows, output>>

\* one iteration: get_fields_from_schema raises on the fragment and nothing
\* catches it
OpenapiRowRaises ==
    /\ InLoop("openapi")
    /\ \E o \in get_resource_schema(Item.APIGroup, Item.Kind, V1) :
        /\ o.value # None
        /\ FieldsOfFragment(o.value).exc # ""
        /\ located' = Call(o)
    /\ pc' = "crashed"
    /\ UNCHANGED <<structVars, schemaVars, fields, driver, corpus, rows, ri,
                   all_fields, output>>

\* the loop of extract_openapi_fields.main is over: all_fields is written
OpenapiWrite ==
    /\ pc = "rows" /\ driver = "openapi" /\ ri > Len(rows)
    /\ output' = all_fields
    /\ pc' = "done"
    /\ UNCHANGED <<structVars, schemaVars, fields, driver, corpus, rows, ri,
                   located, all_fields>>

NextDriver ==
    \/ StartMain
    \/ StructRowRaises
    \/ StructRowWritten
    \/ StructRowNotFound
    \/ StructEnd
    \/ OpenapiRowNotFound
    \/ OpenapiRowExtended
    \/ OpenapiRowRaises
    \/ OpenapiWrite

SpecDriver == InitDriver /\ [][NextDriver]_vars

-----------------------------------------------------------------------------
(* Claims on the locators and the mains *)

\* no Go file of the corpus holds a struct block of the name, no OpenAPI file
\* holds a schema under the id
NoFileMatches(c) ==
    IF driver = "struct"
    THEN \A p \in GoPaths : ~(corpus[p].st = "text" /\ c.Kind \in corpus[p].names)
    ELSE \A p \in JsonPaths :
             ~(corpus[p].st = "json" /\ corpus[p].id = SchemaId(c.APIGroup, V1, c.Kind))

\* the source trees and the OpenAPI directory hold no file
EmptyCorpus == \A p \in DOMAIN corpus : corpus[p].st = "absent"

\* C11 as stated: when no file or schema matches, the locator called for the
\* row returns None and raises nothing, the empty corpus included.
C11_NoMatchReturnsNone ==
    \A i \in 1..Len(located) :
        NoFileMatches(located[i]) => (located[i].exc = "" /\ located[i].value = None)

\* where the locators do as C11 says: get_resource_schema always, and
\* find_struct_file for the core group or with both roots present, when no
\* conventional file of the group is undecodable
C11_NoneWhenRootsExistAndFilesDecode ==
    \A i \in 1..Len(located) :
        (/\ NoFileMatches(located[i])
         /\ driver = "struct" =>
                /\ located[i].APIGroup # CoreGroup
                       => (corpus[PKG].st = "dir" /\ corpus[STAGING].st = "dir")
                /\ \A p \in GoPaths : corpus[p].st # "undecodable")
        => (located[i].exc = "" /\ located[i].value = None)

\* find_struct_file for a named group on the empty corpus has raised
C11_EmptyCorpusWitness ==
    /\ driver = "struct"
    /\ EmptyCorpus
    /\ Len(located) = 1
    /\ located[1].APIGroup = AppsGroup
    /\ located[1].exc = "FileNotFoundError"

\* both locators have returned None on the empty corpus
C11_NoneWitness ==
    /\ EmptyCorpus
    /\ Len(located) = 1
    /\ located[1].APIGroup = (IF driver = "struct" THEN CoreGroup ELSE AppsGroup)
    /\ located[1].exc = "" /\ located[1].value = None

\* the row's locator finds a value and the extractor returns its fields
Healthy(i) ==
    IF driver = "struct"
    THEN \E o \in find_struct_file(rows[i].APIGroup, rows[i].Kind) :
             o.exc = "" /\ o.value # None
    ELSE \E o \in get_resource_schema(rows[i].APIGroup, rows[i].Kind, V1) :
             o.value # None /\ FieldsOfFragment(o.value).exc = ""

HasRecords(i) == \E j \in 1..Len(output) : output[j].row = i

\* C12 as stated: no exception leaves the per-row step, and when the run has
\* ended the records of every row that can be processed are written, the rows
\* before and after a failing row alike.
C12_FailureConfinedToRow ==
    /\ pc # "crashed"
    /\ pc \in {"done", "crashed"} => \A i \in 1..Len(rows) : Healthy(i) => HasRecords(i)

\* what the mains do: a failing row ends the run; extract_fields.py has
\* written the rows before it and none after it, extract_openapi_fields.py
\* has written nothing; a run without a failing row writes every row it can
C12_FailureEndsTheRun ==
    /\ pc = "crashed" =>
           /\ ~Healthy(ri)
           /\ \A i \in 1..Len(rows) :
                  HasRecords(i) <=> (driver = "struct" /\ i < ri /\ Healthy(i))
    /\ pc = "done" => \A i \in 1..Len(rows) : HasRecords(i) <=> Healthy(i)

\* a run of three rows has ended at its second row, the first and the third
\* row being ones that can be processed
C12_MiddleRowWitness ==
    /\ pc = "crashed"
    /\ Len(rows) = 3 /\ ri = 2
    /\ Healthy(1) /\ Healthy(3)
    /\ ~HasRecords(3)

====
